---- MODULE Spec2Model ----
(***************************************************************************)
(* A model of merra_scraping.py: the per-(variable, location) loop that    *)
(* reconciles the on-disk archive, fetches what is not there, removes      *)
(* empty files, ingests the valid artifacts and writes the summaries.      *)
(*                                                                         *)
(* A file name is held as one number: the digits YYYYMMDD of its date, a   *)
(* digit for the generation code (1..4 for MERRA2_100..MERRA2_400), and a  *)
(* last digit 2 * ext + sfx, where ext counts the '.nc4' that follow the   *)
(* date and sfx is 1 when a further piece ('.part') follows them.  The     *)
(* dataset id is the same text in every name of a pair and is left out.    *)
(***************************************************************************)
EXTENDS Integers, Sequences, FiniteSets, TLC

(* ------------------------------ bounds -------------------------------- *)

\* Number of locations of locs taken into the model.
NumLocs == 2

\* Number of consecutive executions of the script.
MaxRuns == 2

\* Length of the year lists the two enumerations are called with.
MaxYears == 2

\* Length of the lists of URLs that are split into chunks, and the largest
\* parallelism target they are split for.
MaxUrls == 12
MaxProcs == 5

\* The denominator of the latitudes and longitudes that are mapped.
CoordDen == 16

\* The most hourly rows one artifact holds, and the most artifacts that are
\* merged.
MaxHours == 2
MaxFrames == 3

\* Years before 1980 and after 2011 that translate_year_to_file_number is
\* called with.
YearsBefore == 5
YearsAfter == 15

\* Runs of the script in a row with a collaborator that delivers.
ConvergeRuns == 4

(* --------------------------- configuration ---------------------------- *)

NUMBER_OF_PROCESSES == 3

\* Value standing for "the call raised".
Raised == -1

\* The year lists the script is run with (line 20 sets one of them).
UnsupportedList == <<1979>>
SupportedList   == <<2012>>
YearLists == { UnsupportedList, SupportedList }

\* The one row of the variables table of the model.
variables_config == << [field_name |-> "t2m", field_id |-> "T2M",
                        database_id |-> "tavg1_2d_slv_Nx"] >>

locs == [i \in 1..NumLocs |-> i]

\* The (variable, location) pairs in the order of the two nested loops.
Pairs == [k \in 1..(Len(variables_config) * NumLocs) |->
            [var |-> ((k - 1) \div NumLocs) + 1,
             loc |-> locs[((k - 1) % NumLocs) + 1]]]

NumPairs == Len(Pairs)

(* ----------------------------- calendar ------------------------------- *)

IsLeap(y) == (y % 4 = 0) /\ ((y % 100 # 0) \/ (y % 400 = 0))

\* calendar.monthrange(y, m)[1]
monthrange(y, m) ==
    IF m = 2 THEN (IF IsLeap(y) THEN 29 ELSE 28)
    ELSE IF m \in {4, 6, 9, 11} THEN 30 ELSE 31

DateStr(y, m, d) == y * 10000 + m * 100 + d

(* ------------------------------ names --------------------------------- *)

\* The mapping with the upper ends of the ranges taken in.
translate_year_inclusive(year) ==
    IF year >= 1980 /\ year <= 1992 THEN 100
    ELSE IF year >= 1992 /\ year <= 2001 THEN 200
    ELSE IF year >= 2001 /\ year <= 2011 THEN 300
    ELSE IF year >= 2011 THEN 400
    ELSE Raised

translate_year_to_file_number(year) ==
    IF year >= 1980 /\ year < 1992 THEN 100
    ELSE IF year >= 1992 /\ year < 2001 THEN 200
    ELSE IF year >= 2001 /\ year < 2011 THEN 300
    ELSE IF year >= 2011 THEN 400
    ELSE Raised

\* Some year of the list makes translate_year_to_file_number raise.
YearsRaise(ys) == \E i \in 1..Len(ys) : translate_year_to_file_number(ys[i]) = Raised

\* The number that stands for the name 'MERRA2_<num>.<ds>.<date>' followed
\* by ext times '.nc4' and, with sfx = 1, by '.part'.
MkName(num, date, ext, sfx) == date * 100 + (num \div 100) * 10 + (2 * ext + sfx)

NameDate(f) == f \div 100
NameNum(f)  == ((f \div 10) % 10) * 100
NameExt(f)  == (f % 10) \div 2
NameSfx(f)  == f % 2

\* 'MERRA2_{num}.{name}.{y}{m}{d}.nc4'
FileName(num, ds, date) == MkName(num, date, 1, 0)

\* f.endswith('.nc4')
EndsWithNc4(f) == NameExt(f) >= 1 /\ NameSfx(f) = 0

\* '.nc4' in f
ContainsNc4(f) == NameExt(f) >= 1

\* f.replace('.nc4', '')
StripNc4(f) == MkName(NameNum(f), NameDate(f), 0, NameSfx(f))

\* s.rsplit('.nc4', 1)[0]: the cut at the last '.nc4' instead of the first.
BeforeLastNc4(f) ==
    IF NameExt(f) >= 1 THEN MkName(NameNum(f), NameDate(f), NameExt(f) - 1, 0) ELSE f

\* s.split('.nc4')[0]
BeforeNc4(f) == IF NameExt(f) >= 1 THEN MkName(NameNum(f), NameDate(f), 0, 0) ELSE f

RECURSIVE Concat(_, _)
\* The concatenation of the sequences F[1], ..., F[n].
Concat(F, n) == IF n = 0 THEN <<>> ELSE Concat(F, n - 1) \o F[n]

\* The days of one year with the last day of every month left out.
DaysOfYearOpenRange(y) ==
    Concat([m \in 1..12 |-> [d \in 1..(monthrange(y, m) - 1) |-> <<m, d>>]], 12)

\* The days of one year in the order of the loops over m and d.
DaysOfYear(y) ==
    Concat([m \in 1..12 |-> [d \in 1..monthrange(y, m) |-> <<m, d>>]], 12)

\* One URL: '{base}{y}/{m}/{file_name}.nc4?{params}'.  last is the final
\* path segment, the file name with one more '.nc4'.
Url(y, m, file_name) ==
    [y |-> y, m |-> m,
     last |-> MkName(NameNum(file_name), NameDate(file_name), NameExt(file_name) + 1,
                     NameSfx(file_name))]

generate_download_links(download_years, dataset_name) ==
    Concat([i \in 1..Len(download_years) |->
              LET y    == download_years[i]
                  days == DaysOfYear(y)
              IN  [k \in 1..Len(days) |->
                     Url(y, days[k][1],
                         FileName(translate_year_to_file_number(y), dataset_name,
                                  DateStr(y, days[k][1], days[k][2])))]],
           Len(download_years))

get_expected_filenames(ys, database_id) ==
    UNION { { FileName(translate_year_to_file_number(ys[i]), database_id,
                       DateStr(ys[i], m, d)) : d \in 1..monthrange(ys[i], m) }
            : <<i, m>> \in (1..Len(ys)) \X (1..12) }

(* ------------------------------ state --------------------------------- *)

VARIABLES
    years,            \* the global list years
    fetchExt,         \* how many '.nc4' the collaborator keeps in the name it writes
    run,              \* number of the execution of the script
    cur,              \* index in Pairs of the pair the loop is at
    pc,               \* position in the loop body
    dirExists,        \* per pair: the directory exists
    disk,             \* per pair: content kind -> names of the files of that kind there
    is_complete,      \* result of check_download_completeness (line 380)
    missing_files,    \* its second result: the missing and the corrupted names
    url_chunks,       \* line 420
    pass,             \* 1: loop of lines 424-430, 2: loop of lines 433-435
    ci,               \* index of the chunk the loop is at
    valid_files,      \* line 440
    outputs,          \* per pair: the artifacts whose data the three CSV files hold
    log,              \* per pair: the message the pass over it ended with, this run
    calls,            \* the chunks (their indices) handed to start_download so far
    dir_at_fetch,     \* os.listdir(dir_path) of line 396
    zeroAtRecon,      \* per pair: zero-byte artifacts there when it was last reconciled
    zeroAtPrevRecon,  \* per pair: the same, one reconciliation earlier
    call,             \* the helper function a call of which is followed, or "none"
    arg,              \* the arguments of that call
    ret               \* << >> until the call returns, then << its result >>

vars == << years, fetchExt, run, cur, pc, dirExists, disk, is_complete,
           missing_files, url_chunks, pass, ci, valid_files,
           outputs, log, calls, dir_at_fetch, zeroAtRecon, zeroAtPrevRecon,
           call, arg, ret >>

\* The variables that follow one call of a helper function.
callVars == << call, arg, ret >>

\* Content kinds of a file: zero bytes; readable by the primary reader;
\* readable by the secondary reader only; readable by neither; opened by the
\* primary reader but carrying neither filename attribute.
Kinds == {"empty", "good", "fallback", "unparseable", "nokey"}

\* os.path.getsize(file_path) == 0
IsEmpty(kind) == kind = "empty"

NonEmptyKinds == {k \in Kinds : ~IsEmpty(k)}

\* The file f is in the directory whose content is files.
OnDisk(files, f) == \E k \in Kinds : f \in files[k]

\* The names of the directory whose content is files.
NamesIn(files) == UNION {files[k] : k \in Kinds}

\* os.listdir(dir_path) for the pair p
Files(p) == NamesIn(disk[p])

EmptyDir == [k \in Kinds |-> {}]

NoSpecial == [f \in {} |-> "good"]

(* --------------------------- initial disks ---------------------------- *)

TheDs == variables_config[1].database_id

\* The two enumerations for each year list, computed once.  For a list with
\* a year that has no file number both calls raise, and no value is used.
ExpectedSupported == get_expected_filenames(SupportedList, TheDs)
LinksSupported    == generate_download_links(SupportedList, TheDs)

ExpectedOf == (SupportedList :> ExpectedSupported) @@ (UnsupportedList :> {})
LinksOf    == (SupportedList :> LinksSupported) @@ (UnsupportedList :> <<>>)

\* Expected names of the pair's range (defined for supported years).
Expected(p) == ExpectedOf[years]

\* all_urls of line 407 (defined for supported years).
AllUrls(p) == LinksOf[years]

FirstDay(ys) == FileName(translate_year_to_file_number(ys[1]), TheDs, DateStr(ys[1], 1, 1))
LastDay(ys)  == FileName(translate_year_to_file_number(ys[Len(ys)]), TheDs,
                         DateStr(ys[Len(ys)], 12, 31))

\* An artifact of another year, and a partial file.
OtherArtifact == FileName(300, TheDs, DateStr(2010, 12, 31))
PartFile      == MkName(400, DateStr(2012, 1, 2), 1, 1)

\* All of E good, except as given by the function special.
Archive(E, special) ==
    [k \in Kinds |->
        {f \in DOMAIN special : special[f] = k}
        \cup (IF k = "good" THEN E \ DOMAIN special ELSE {})]

\* The states of one pair's directory a run may start from.
InitDirs(ys) ==
    LET E  == ExpectedOf[ys]
        s1 == FirstDay(ys)
        s2 == LastDay(ys)
    IN  { [exists |-> FALSE, files |-> EmptyDir],
          [exists |-> TRUE,  files |-> EmptyDir] }
        \cup
        (IF YearsRaise(ys)
         THEN { [exists |-> TRUE, files |-> Archive({}, (OtherArtifact :> "good"))] }
         ELSE { [exists |-> TRUE, files |-> Archive(E, NoSpecial)],
                [exists |-> TRUE, files |-> Archive(E, (s1 :> "absent") @@ (s2 :> "empty"))],
                [exists |-> TRUE, files |-> Archive(E, (s1 :> "unparseable") @@ (s2 :> "fallback")
                                                        @@ (OtherArtifact :> "empty")
                                                        @@ (PartFile :> "empty"))],
                [exists |-> TRUE, files |-> Archive(E, (s1 :> "absent") @@ (s2 :> "nokey"))] })

NoOutput == [written |-> FALSE, sources |-> {}]

Init ==
    /\ years \in YearLists
    /\ fetchExt \in {1, 2}
    /\ run = 1
    /\ cur = 1
    /\ pc = "reconcile"
    /\ \E d \in [1..NumPairs -> InitDirs(years)] :
          /\ dirExists = [p \in 1..NumPairs |-> d[p].exists]
          /\ disk = [p \in 1..NumPairs |-> d[p].files]
    /\ is_complete = FALSE
    /\ missing_files = {}
    /\ url_chunks = <<>>
    /\ pass = 1
    /\ ci = 1
    /\ valid_files = {}
    /\ outputs = [p \in 1..NumPairs |-> NoOutput]
    /\ log = [p \in 1..NumPairs |-> "pending"]
    /\ calls = <<>>
    /\ dir_at_fetch = {}
    /\ zeroAtRecon = [p \in 1..NumPairs |-> {}]
    /\ zeroAtPrevRecon = [p \in 1..NumPairs |-> {}]
    /\ call = "none"
    /\ arg = << >>
    /\ ret = << >>

(* -------------------------- reconciliation ---------------------------- *)

\* existing_files of line 342
ListedArtifacts(p) == {f \in Files(p) : EndsWithNc4(f)}

\* missing_files of line 343: expected_files - existing_files
ReconMissing(p) == {f \in Expected(p) : ~(OnDisk(disk[p], f) /\ EndsWithNc4(f))}

\* corrupted_files of lines 346-350
ReconCorrupted(p) == UNION {{f \in disk[p][k] : EndsWithNc4(f)} : k \in {j \in Kinds : IsEmpty(j)}}

\* check_download_completeness without the test of the sizes.
CompletenessIgnoringEmpty(p) ==
    IF ~dirExists[p]
    THEN [complete |-> FALSE, files |-> {}]
    ELSE [complete |-> ReconMissing(p) = {},
          files    |-> ReconMissing(p) \cup ReconCorrupted(p)]

\* The pair of values check_download_completeness returns.
check_download_completeness(p) ==
    IF ~dirExists[p]
    THEN [complete |-> FALSE, files |-> {}]
    ELSE [complete |-> ReconMissing(p) = {} /\ ReconCorrupted(p) = {},
          files    |-> ReconMissing(p) \cup ReconCorrupted(p)]

\* check_download_completeness raises: get_expected_filenames is reached
\* (the directory exists) and a year has no file number.
ReconcileRaises(p) == dirExists[p] /\ YearsRaise(years)

(* ---------------------------- fetch stage ----------------------------- *)

\* url.split('/')[-1] without the split at '.nc4'.
UrlLastSegment(u) == u.last

\* url.split('/')[-1].split('.nc4')[0]
UrlStem(u) == BeforeNc4(u.last)

\* existing_files of lines 396-397
ExistingStems(p) == {StripNc4(f) : f \in ListedArtifacts(p)}

\* urls_to_download of lines 410-411
UrlsToDownload(all_urls, existing) ==
    SelectSeq(all_urls, LAMBDA u : UrlStem(u) \notin existing)

Max(a, b) == IF a >= b THEN a ELSE b

\* The chunks without the last, shorter one.
ChunksWithoutRemainder(urls, procs) ==
    LET n          == Len(urls)
        chunk_size == Max(1, n \div procs)
    IN  [j \in 1..(n \div chunk_size) |->
            SubSeq(urls, (j - 1) * chunk_size + 1, j * chunk_size)]

\* chunk_size and url_chunks of lines 419-420, for the target procs:
\* [urls[i:i + chunk_size] for i in range(0, len(urls), chunk_size)]
Chunks(urls, procs) ==
    LET n          == Len(urls)
        chunk_size == Max(1, n \div procs)
        count      == (n + chunk_size - 1) \div chunk_size
    IN  [j \in 1..count |->
            SubSeq(urls, (j - 1) * chunk_size + 1,
                   IF j * chunk_size <= n THEN j * chunk_size ELSE n)]

\* url_chunks of line 420 with the script's NUMBER_OF_PROCESSES
UrlChunks(urls) == Chunks(urls, NUMBER_OF_PROCESSES)

\* The name under which the collaborator stores what it got for a URL.
FetchedName(u) == MkName(NameNum(u.last), NameDate(u.last), fetchExt, NameSfx(u.last))

\* The URLs on which the collaborator's result varies in the model: those of
\* the first of January.  Every other URL arrives as a good file.
Flaky(u) == NameDate(u.last) % 10000 = 101

Range(seq) == {seq[i] : i \in 1..Len(seq)}

\* What one start_download leaves on disk: for every URL of the chunk a good
\* file, an empty file, or nothing (the file that was there stays).
AfterDownload(files, chunk, outcome) ==
    LET urls      == Range(chunk)
        Result(u) == IF Flaky(u) THEN outcome[u] ELSE "good"
        written   == {FetchedName(u) : u \in {v \in urls : Result(v) # "none"}}
    IN  [k \in Kinds |->
            (files[k] \ written)
            \cup {FetchedName(u) : u \in {v \in urls : Result(v) = k}}]

(* ------------------------------ ingestion ----------------------------- *)

\* valid_files of lines 444-448
ValidFiles(files) == UNION {{f \in files[k] : ContainsNc4(f)} : k \in NonEmptyKinds}

\* The directory with the os.remove of line 451 left out.
AfterSweepKeepingEmpty(files) == files

\* The directory after the removals of lines 449-451.
AfterSweep(files) ==
    [k \in Kinds |-> IF IsEmpty(k) THEN {f \in files[k] : ~ContainsNc4(f)} ELSE files[k]]

\* The primary reader's block raises something the clause of line 480 does
\* not catch (extract_date's AttributeError): the pair's try block is left.
EscapesFallback(files, valid) == \E f \in valid : f \in files["nokey"]

\* all_data of lines 460-501: the artifacts one of the readers read.
AllData(files, valid) == {f \in valid : f \in files["good"] \/ f \in files["fallback"]}

(* ------------------------------ actions ------------------------------- *)

\* The loop goes on to the next pair (continue, or the end of the body).  The
\* values of the pass are overwritten before the next pass reads them.
Advance(lg, out) ==
    /\ log' = [log EXCEPT ![cur] = lg]
    /\ outputs' = out
    /\ is_complete' = FALSE
    /\ missing_files' = {}
    /\ url_chunks' = <<>>
    /\ pass' = 1
    /\ ci' = 1
    /\ valid_files' = {}
    /\ calls' = <<>>
    /\ dir_at_fetch' = {}
    /\ IF cur < NumPairs
       THEN cur' = cur + 1 /\ pc' = "reconcile"
       ELSE cur' = cur /\ pc' = "finished"

\* Line 380.
Reconcile ==
    /\ pc = "reconcile"
    /\ IF ReconcileRaises(cur)
       THEN /\ pc' = "aborted"
            /\ UNCHANGED << is_complete, missing_files, zeroAtRecon, zeroAtPrevRecon >>
       ELSE /\ pc' = "branch"
            /\ LET result == check_download_completeness(cur)
               IN  /\ is_complete' = result.complete
                   /\ missing_files' = result.files
            /\ zeroAtPrevRecon' = [zeroAtPrevRecon EXCEPT ![cur] = zeroAtRecon[cur]]
            /\ zeroAtRecon' = [zeroAtRecon EXCEPT ![cur] = ReconCorrupted(cur)]
    /\ UNCHANGED << years, fetchExt, run, cur, dirExists, disk, url_chunks, pass,
                    ci, valid_files, outputs, log, calls, dir_at_fetch >>
    /\ UNCHANGED callVars

\* Lines 382-384.
SkipComplete ==
    /\ pc = "branch"
    /\ is_complete
    /\ Advance("skipped", outputs)
    /\ UNCHANGED << years, fetchExt, run, dirExists, disk, zeroAtRecon, zeroAtPrevRecon >>
    /\ UNCHANGED callVars

\* Lines 385-420.
Plan ==
    /\ pc = "branch"
    /\ ~is_complete
    /\ dirExists' = [dirExists EXCEPT ![cur] = TRUE]
    /\ dir_at_fetch' = Files(cur)
    /\ IF YearsRaise(years)
       THEN /\ pc' = "aborted"
            /\ UNCHANGED << url_chunks >>
       ELSE LET all_urls == AllUrls(cur)
                urls_to_download == UrlsToDownload(all_urls, ExistingStems(cur))
            IN  /\ url_chunks' = UrlChunks(urls_to_download)
                /\ pc' = IF urls_to_download = <<>> THEN "sweep" ELSE "download"
    /\ UNCHANGED << years, fetchExt, run, cur, disk, is_complete, missing_files,
                    pass, ci, valid_files, outputs, log, calls, zeroAtRecon,
                    zeroAtPrevRecon >>
    /\ UNCHANGED callVars

\* One start_download, line 429 (pass 1) or line 435 (pass 2), with a
\* collaborator whose results are among the given ones.
Download(results) ==
    /\ LET chunk == url_chunks[ci]
       IN  /\ \E outcome \in [{u \in Range(chunk) : Flaky(u)} -> results] :
                disk' = [disk EXCEPT ![cur] = AfterDownload(disk[cur], chunk, outcome)]
           /\ calls' = Append(calls, ci)
    /\ IF ci < Len(url_chunks)
       THEN ci' = ci + 1 /\ pass' = pass /\ pc' = pc
       ELSE IF pass = 1
            THEN ci' = 1 /\ pass' = 2 /\ pc' = pc
            ELSE ci' = 1 /\ pass' = 1 /\ pc' = "sweep"
    /\ UNCHANGED << years, fetchExt, run, cur, dirExists, is_complete, missing_files,
                    url_chunks, valid_files, outputs, log,
                    dir_at_fetch, zeroAtRecon, zeroAtPrevRecon >>
    /\ UNCHANGED callVars

\* The collaborator may store a file, leave a zero-byte file, or leave nothing.
StartDownload ==
    /\ pc = "download"
    /\ Download({"none", "empty", "good"})

\* The sweep with dir_path built without the location: the empty files of
\* every location of the variable are removed.
SweepAllLocations ==
    /\ pc = "sweep"
    /\ disk' = [p \in 1..NumPairs |-> AfterSweep(disk[p])]
    /\ IF ValidFiles(disk[cur]) = {}
       THEN Advance("novalid", outputs)
       ELSE /\ valid_files' = ValidFiles(disk[cur])
            /\ pc' = "ingest"
            /\ UNCHANGED << cur, is_complete, missing_files, url_chunks, pass, ci,
                            outputs, log, calls, dir_at_fetch >>
    /\ UNCHANGED << years, fetchExt, run, dirExists, zeroAtRecon, zeroAtPrevRecon >>
    /\ UNCHANGED callVars

\* Lines 439-456.
Sweep ==
    /\ pc = "sweep"
    /\ disk' = [disk EXCEPT ![cur] = AfterSweep(disk[cur])]
    /\ IF ValidFiles(disk[cur]) = {}
       THEN Advance("novalid", outputs)
       ELSE /\ valid_files' = ValidFiles(disk[cur])
            /\ pc' = "ingest"
            /\ UNCHANGED << cur, is_complete, missing_files, url_chunks, pass, ci,
                            outputs, log, calls, dir_at_fetch >>
    /\ UNCHANGED << years, fetchExt, run, dirExists, zeroAtRecon, zeroAtPrevRecon >>
    /\ UNCHANGED callVars

\* Lines 459-552.
Ingest ==
    /\ pc = "ingest"
    /\ LET all_data == AllData(disk[cur], valid_files)
       IN  IF EscapesFallback(disk[cur], valid_files)
           THEN Advance("error", outputs)
           ELSE IF all_data = {}
                THEN Advance("nodata", outputs)
                ELSE Advance("processed",
                             [outputs EXCEPT ![cur] = [written |-> TRUE, sources |-> all_data]])
    /\ UNCHANGED << years, fetchExt, run, dirExists, disk, zeroAtRecon, zeroAtPrevRecon >>
    /\ UNCHANGED callVars

\* The script is run again, up to the given number of runs.
Rerun(runs) ==
    /\ run < runs
    /\ run' = run + 1
    /\ cur' = 1
    /\ pc' = "reconcile"
    /\ log' = [p \in 1..NumPairs |-> "pending"]
    /\ is_complete' = FALSE
    /\ missing_files' = {}
    /\ url_chunks' = <<>>
    /\ pass' = 1
    /\ ci' = 1
    /\ valid_files' = {}
    /\ calls' = <<>>
    /\ dir_at_fetch' = {}
    /\ UNCHANGED << years, fetchExt, dirExists, disk, outputs, zeroAtRecon,
                    zeroAtPrevRecon >>
    /\ UNCHANGED callVars

NextRun ==
    /\ pc \in {"finished", "aborted"}
    /\ Rerun(MaxRuns)

Next ==
    \/ Reconcile
    \/ SkipComplete
    \/ Plan
    \/ StartDownload
    \/ Sweep
    \/ Ingest
    \/ NextRun

Spec == Init /\ [][Next]_vars

(* ------------------- runs with a collaborator that delivers ----------- *)

\* The collaborator stores a non-empty, readable file for every URL.
StartDownloadDelivered ==
    /\ pc = "download"
    /\ Download({"good"})

NextRunConverge ==
    /\ pc \in {"finished", "aborted"}
    /\ Rerun(ConvergeRuns)

\* Supported years, any directory state, either naming by the collaborator.
InitConverge == Init /\ ~YearsRaise(years)

NextConverge ==
    \/ Reconcile
    \/ SkipComplete
    \/ Plan
    \/ StartDownloadDelivered
    \/ Sweep
    \/ Ingest
    \/ NextRunConverge

SpecConverge == InitConverge /\ [][NextConverge]_vars

(* --------------------------- helper calls ----------------------------- *)

\* The main loop stays where it is while a call of a helper is followed.
LoopIdle ==
    UNCHANGED << years, fetchExt, run, cur, pc, dirExists, disk, is_complete,
                 missing_files, url_chunks, pass, ci, valid_files, outputs, log,
                 calls, dir_at_fetch, zeroAtRecon, zeroAtPrevRecon >>

\* The state of the script before the loop, for the year list ys, with no
\* directory on disk.
BeforeLoop(ys) ==
    /\ years = ys
    /\ fetchExt = 1
    /\ run = 1
    /\ cur = 1
    /\ pc = "reconcile"
    /\ dirExists = [p \in 1..NumPairs |-> FALSE]
    /\ disk = [p \in 1..NumPairs |-> EmptyDir]
    /\ is_complete = FALSE
    /\ missing_files = {}
    /\ url_chunks = <<>>
    /\ pass = 1
    /\ ci = 1
    /\ valid_files = {}
    /\ outputs = [p \in 1..NumPairs |-> NoOutput]
    /\ log = [p \in 1..NumPairs |-> "pending"]
    /\ calls = <<>>
    /\ dir_at_fetch = {}
    /\ zeroAtRecon = [p \in 1..NumPairs |-> {}]
    /\ zeroAtPrevRecon = [p \in 1..NumPairs |-> {}]

\* The call with the function name fn returns the value v.
Returns(fn, v) ==
    /\ call = fn
    /\ ret = << >>
    /\ ret' = << v >>
    /\ UNCHANGED << call, arg >>
    /\ LoopIdle

\* The call of fn has returned.
Returned(fn) == call = fn /\ ret # << >>

(* Coordinates.  A real number is held as a fraction [num, den], den > 0. *)

\* np.arange(0, 361) and np.arange(0, 576), lines 216-217
lat_coords == [k \in 1..361 |-> k - 1]
lon_coords == [k \in 1..576 |-> k - 1]

\* (latitude + 90) / 0.5
translate_lat_to_geos5_native(latitude) ==
    [num |-> 2 * (latitude.num + 90 * latitude.den), den |-> latitude.den]

\* (longitude + 180) / 0.625
translate_lon_to_geos5_native(longitude) ==
    [num |-> 8 * (longitude.num + 180 * longitude.den), den |-> 5 * longitude.den]

Abs(x) == IF x < 0 THEN 0 - x ELSE x

RECURSIVE ArgMinLastIn(_, _, _)
\* The position of the last least element of a[lo..hi].
ArgMinLastIn(a, lo, hi) ==
    IF lo = hi THEN lo
    ELSE LET mid == (lo + hi) \div 2
             l   == ArgMinLastIn(a, lo, mid)
             r   == ArgMinLastIn(a, mid + 1, hi)
         IN  IF a[r] <= a[l] THEN r ELSE l

RECURSIVE ArgMinIn(_, _, _)
\* The position of the first least element of a[lo..hi]: that of the left
\* half unless the right half has a smaller one.
ArgMinIn(a, lo, hi) ==
    IF lo = hi THEN lo
    ELSE LET mid == (lo + hi) \div 2
             l   == ArgMinIn(a, lo, mid)
             r   == ArgMinIn(a, mid + 1, hi)
         IN  IF a[r] < a[l] THEN r ELSE l

\* a.argmin(): the index, counted from 0, of the first least element
argmin(a) == ArgMinIn(a, 1, Len(a)) - 1

\* The closest coordinate with the last of the least differences taken.
find_closest_last(calc_coord, coord_array) ==
    LET diffs == [k \in 1..Len(coord_array) |->
                    Abs(coord_array[k] * calc_coord.den - calc_coord.num)]
    IN  coord_array[ArgMinLastIn(diffs, 1, Len(coord_array))]

\* np.abs(coord_array - calc_coord).argmin(), then coord_array[index]; the
\* differences are held multiplied by calc_coord.den.
find_closest_coordinate(calc_coord, coord_array) ==
    LET diffs == [k \in 1..Len(coord_array) |->
                    Abs(coord_array[k] * calc_coord.den - calc_coord.num)]
        index == argmin(diffs)
    IN  coord_array[index + 1]

\* The latitudes of [-90, 90] and the longitudes of [-180, 180] that are
\* multiples of 1 / CoordDen.
Latitudes  == {[num |-> q, den |-> CoordDen] : q \in (0 - 90 * CoordDen)..(90 * CoordDen)}
Longitudes == {[num |-> q, den |-> CoordDen] : q \in (0 - 180 * CoordDen)..(180 * CoordDen)}

\* Lines 400 and 402.
CallClosestLat ==
    Returns("lat_closest",
            find_closest_coordinate(translate_lat_to_geos5_native(arg), lat_coords))

\* Lines 401 and 403.
CallClosestLon ==
    Returns("lon_closest",
            find_closest_coordinate(translate_lon_to_geos5_native(arg), lon_coords))

InitCoords ==
    /\ BeforeLoop(SupportedList)
    /\ ret = << >>
    /\ \/ call = "lat_closest" /\ arg \in Latitudes
       \/ call = "lon_closest" /\ arg \in Longitudes

NextCoords ==
    \/ CallClosestLat
    \/ CallClosestLon

SpecCoords == InitCoords /\ [][NextCoords]_vars

\* Years at the ends of the generations, leap and century years, and a year
\* before the first generation.
YearPool == {1979, 1980, 1991, 1992, 2000, 2011, 2012, 2100}

\* The year lists of at most MaxYears years of YearPool.
YearListsUpTo(n) == UNION {[1..k -> YearPool] : k \in 1..n}

\* The years a single translate_year_to_file_number is called with.
TranslateYears == (1980 - YearsBefore)..(2011 + YearsAfter)

\* translate_year_to_file_number(year), line 306 or 327
CallTranslate == Returns("translate_year_to_file_number", translate_year_to_file_number(arg))

\* generate_download_links(years, ...): the exception of line 287 leaves the
\* function at line 306, before it returns a list.
CallGenerateLinks ==
    Returns("generate_download_links",
            IF YearsRaise(arg)
            THEN [raised |-> TRUE, urls |-> << >>]
            ELSE [raised |-> FALSE, urls |-> generate_download_links(arg, TheDs)])

\* get_expected_filenames(years, database_id): likewise, at line 327.
CallGetExpected ==
    Returns("get_expected_filenames",
            IF YearsRaise(arg)
            THEN [raised |-> TRUE, names |-> {}]
            ELSE [raised |-> FALSE, names |-> get_expected_filenames(arg, TheDs)])

\* The lists to download and the targets the chunks are computed for: the
\* URLs are held as their positions in the list.
ChunkInputs ==
    {[urls |-> [k \in 1..n |-> k], procs |-> t] : n \in 1..MaxUrls, t \in 1..MaxProcs}

\* Lines 419-420.
CallChunks == Returns("url_chunks", Chunks(arg.urls, arg.procs))

InitHelpers ==
    /\ BeforeLoop(SupportedList)
    /\ ret = << >>
    /\ \/ call = "translate_year_to_file_number" /\ arg \in TranslateYears
       \/ call = "generate_download_links" /\ arg \in YearListsUpTo(MaxYears)
       \/ call = "get_expected_filenames" /\ arg \in YearListsUpTo(MaxYears)
       \/ call = "url_chunks" /\ arg \in ChunkInputs

NextHelpers ==
    \/ CallTranslate
    \/ CallGenerateLinks
    \/ CallGetExpected
    \/ CallChunks

SpecHelpers == InitHelpers /\ [][NextHelpers]_vars

(* ------------------------- series and summaries ---------------------- *)

(* A frame of all_data is held as [date, hours, val]: the rows of one        *)
(* artifact, for the hours 0 .. hours - 1 of its date, all with the value    *)
(* val.  A value of a summary is a fraction [num, den], den > 0.             *)

\* date.toordinal() of the first of January of y
OrdinalOfJan1(y) ==
    365 * (y - 1) + ((y - 1) \div 4) - ((y - 1) \div 100) + ((y - 1) \div 400) + 1

RECURSIVE DaysBeforeMonth(_, _)
DaysBeforeMonth(y, m) == IF m = 1 THEN 0 ELSE DaysBeforeMonth(y, m - 1) + monthrange(y, m - 1)

\* date.toordinal() of the date held as the number YYYYMMDD
Ordinal(date) ==
    LET y == date \div 10000
        m == (date \div 100) % 100
        d == date % 100
    IN  OrdinalOfJan1(y) + DaysBeforeMonth(y, m) + d - 1

\* The ordinal of the Monday that starts ISO week 1 of the year y.
IsoWeek1Monday(y) ==
    LET firstday     == OrdinalOfJan1(y)
        firstweekday == (firstday + 6) % 7
        monday       == firstday - firstweekday
    IN  IF firstweekday > 3 THEN monday + 7 ELSE monday

\* dt.isocalendar(): the ISO year and the ISO week of the date
isocalendar(date) ==
    LET y     == date \div 10000
        today == Ordinal(date)
    IN  IF today < IsoWeek1Monday(y)
        THEN [year |-> y - 1, week |-> ((today - IsoWeek1Monday(y - 1)) \div 7) + 1]
        ELSE IF today >= IsoWeek1Monday(y + 1)
        THEN [year |-> y + 1, week |-> 1]
        ELSE [year |-> y, week |-> ((today - IsoWeek1Monday(y)) \div 7) + 1]

\* The rows of one frame (lines 470-476): index t, the hour counted from the
\* start of the calendar, and the value.
FrameRows(fr) ==
    [k \in 1..fr.hours |-> [t |-> Ordinal(fr.date) * 24 + (k - 1), date |-> fr.date, v |-> fr.val]]

\* pd.concat(all_data)
concat(all_data) == Concat([i \in 1..Len(all_data) |-> FrameRows(all_data[i])], Len(all_data))

\* The sorted rows with the row put after the rows whose index is not larger.
InsertRow(sorted, row) ==
    LET k == Cardinality({i \in 1..Len(sorted) : sorted[i].t <= row.t})
    IN  SubSeq(sorted, 1, k) \o << row >> \o SubSeq(sorted, k + 1, Len(sorted))

RECURSIVE sort_index_unique(_)
\* The sort that keeps one row of each index.
sort_index_unique(rows) ==
    IF rows = << >> THEN << >>
    ELSE LET sorted == sort_index_unique(SubSeq(rows, 1, Len(rows) - 1))
             row    == rows[Len(rows)]
         IN  IF \E i \in 1..Len(sorted) : sorted[i].t = row.t
             THEN sorted
             ELSE InsertRow(sorted, row)

RECURSIVE sort_index(_)
\* .sort_index(): the rows in the order of their index.  Rows of the same
\* index are left in the order of the concatenation.
sort_index(rows) ==
    IF rows = << >> THEN << >>
    ELSE InsertRow(sort_index(SubSeq(rows, 1, Len(rows) - 1)), rows[Len(rows)])

(* Fractions. *)
Frac(n) == [num |-> n, den |-> 1]
FracAdd(a, b) == [num |-> a.num * b.den + b.num * a.den, den |-> a.den * b.den]
FracLess(a, b) == a.num * b.den < b.num * a.den
FracEq(a, b) == a.num * b.den = b.num * a.den

RECURSIVE FracSum(_, _)
FracSum(xs, n) == IF n = 0 THEN Frac(0) ELSE FracAdd(FracSum(xs, n - 1), xs[n])

RECURSIVE FracMax(_, _)
FracMax(xs, n) ==
    IF n = 1 THEN xs[1]
    ELSE LET m == FracMax(xs, n - 1) IN IF FracLess(m, xs[n]) THEN xs[n] ELSE m

\* .agg({field_name: aggregator}) on the values xs of one group
Agg(aggregator, xs) ==
    IF aggregator = "sum" THEN FracSum(xs, Len(xs))
    ELSE IF aggregator = "max" THEN FracMax(xs, Len(xs))
    ELSE LET total == FracSum(xs, Len(xs))
         IN  [num |-> total.num, den |-> total.den * Len(xs)]

RECURSIVE SortedKeys(_)
\* The keys of the groups in the order groupby gives them: ascending.
SortedKeys(S) ==
    IF S = {} THEN << >>
    ELSE LET least == CHOOSE x \in S : \A z \in S : x <= z
         IN  << least >> \o SortedKeys(S \ {least})

\* The values of the rows whose key, keys[i] for row i, is the given one, in
\* the order of the rows.
ValuesWhere(rows, keys, key) ==
    LET picked == SelectSeq([i \in 1..Len(rows) |-> i], LAMBDA i : keys[i] = key)
    IN  [k \in 1..Len(picked) |-> rows[picked[k]].v]

\* df.groupby('date', as_index=False).agg({field_name: aggregator}), line 531
df_daily(df, aggregator) ==
    LET dates == SortedKeys({df[i].date : i \in 1..Len(df)})
    IN  [k \in 1..Len(dates) |->
            [date |-> dates[k],
             v    |-> Agg(aggregator,
                          ValuesWhere([i \in 1..Len(df) |-> [v |-> Frac(df[i].v)]],
                                      [i \in 1..Len(df) |-> df[i].date], dates[k]))]]

\* The key of the week of a date: ISO year and ISO week as one number.
WeekKey(date) == isocalendar(date).year * 100 + isocalendar(date).week

\* The groups by (Year, Week) of rows that carry a date, reduced (line 542).
ByWeek(rows, aggregator) ==
    LET keys == SortedKeys({WeekKey(rows[i].date) : i \in 1..Len(rows)})
    IN  [k \in 1..Len(keys) |->
            [Year |-> keys[k] \div 100,
             Week |-> keys[k] % 100,
             v    |-> Agg(aggregator, ValuesWhere(rows, [i \in 1..Len(rows) |-> WeekKey(rows[i].date)],
                                          keys[k]))]]

\* The summaries with the weeks reduced from the hourly rows.
aggregate_single_stage(df, aggregator) ==
    [daily  |-> df_daily(df, aggregator),
     weekly |-> ByWeek([i \in 1..Len(df) |-> [date |-> df[i].date, v |-> Frac(df[i].v)]],
                       aggregator)]

\* Lines 530-546: the daily and the weekly summary of the hourly rows df.
aggregate(df, aggregator) ==
    [daily  |-> df_daily(df, aggregator),
     weekly |-> ByWeek(df_daily(df, aggregator), aggregator)]

\* Days of the turn of a year: a Sunday, in the last ISO week of the year
\* before, and the three days after it, in ISO week 1.
DatePool == {20120101, 20120102, 20120103, 20120104}

\* The value of the field on a day, the same in every artifact of the day:
\* 0 on the first of January, then 1, 2, 3.
ValueOn(date) == (date % 100) - 1

Aggregators == {"mean", "sum", "max"}

Frames == {[date |-> d, hours |-> h, val |-> ValueOn(d)] : d \in DatePool, h \in 1..MaxHours}

\* all_data: at most MaxFrames frames in any order, two of them possibly of
\* the same day.
FrameLists == UNION {[1..n -> Frames] : n \in 1..MaxFrames}

\* Line 508.
CallMerge == Returns("merge", [df |-> sort_index(concat(arg.all_data))])

\* Lines 530-546, on the rows line 508 gave.
CallAggregate ==
    /\ call = "merge"
    /\ ret # << >>
    /\ call' = "aggregate"
    /\ arg' = [df |-> ret[1].df, aggregator |-> arg.aggregator]
    /\ ret' = << aggregate(ret[1].df, arg.aggregator) >>
    /\ LoopIdle

InitSeries ==
    /\ BeforeLoop(SupportedList)
    /\ ret = << >>
    /\ call = "merge"
    /\ arg \in [all_data : FrameLists, aggregator : Aggregators]

NextSeries ==
    \/ CallMerge
    \/ CallAggregate

SpecSeries == InitSeries /\ [][NextSeries]_vars

(* ------------------------------ claims -------------------------------- *)

\* The pass over the pair p has ended in this run.
PassEnded(p) == log[p] # "pending"

\* The pass over the pair p reached the ingestion of its valid files.
IngestionRan(p) == log[p] \in {"processed", "nodata", "error"}

\* The artifacts of the pair p that one of the two readers can read.
Readable(p) == {f \in ValidFiles(disk[p]) : f \in disk[p]["good"] \/ f \in disk[p]["fallback"]}

\* The resource a name belongs to: its date and generation code, whatever
\* follows them.
ResourceOf(f) == f \div 10

\* The resources start_download was asked for, for the pair at cur.
RequestedResources ==
    UNION {{ResourceOf(u.last) : u \in Range(url_chunks[j])} : j \in Range(calls)}

\* C1: for every pair, ingestion and aggregation run over the valid artifacts
\* on disk, also when reconciliation reported the archive complete: no pass
\* over a pair that holds valid artifacts ends without reaching ingestion.
C1_AggregationNeverSkipped ==
    \A p \in 1..NumPairs :
        (PassEnded(p) /\ ValidFiles(disk[p]) # {}) => IngestionRan(p)

\* C2: within one run, the collaborator is asked for each resource of a pair
\* at most once.
C2_AtMostOneRequest ==
    \A j \in Range(calls) : Cardinality({i \in 1..Len(calls) : calls[i] = j}) <= 1

\* C3: no request is issued for a resource whose file, valid or zero-byte, is
\* in the pair's directory when the fetch stage starts; a directory that holds
\* every expected resource gets no request at all.
C3_NoRequestForExisting ==
    /\ RequestedResources \cap {ResourceOf(f) : f \in {g \in dir_at_fetch : EndsWithNc4(g)}} = {}
    /\ (pc \in {"download", "sweep", "ingest"} /\ Expected(cur) \subseteq dir_at_fetch)
          => url_chunks = <<>>

\* C3 witness: the fetch stage of a pair has issued requests while a
\* zero-byte expected artifact was in the directory from its start on.
C3_Witness ==
    /\ pc = "sweep"
    /\ calls # <<>>
    /\ \E f \in dir_at_fetch : f \in Expected(cur) /\ f \in disk[cur]["empty"]

\* C4: a zero-byte artifact that is on disk when a pair is reconciled is off
\* the disk when the pass over the pair ends, and the next reconciliation of
\* the pair finds it absent and, if it is an expected name, reports it missing.
C4_ZeroByteDeletedThenMissing ==
    /\ \A p \in 1..NumPairs :
          PassEnded(p) => \A f \in zeroAtRecon[p] : ~OnDisk(disk[p], f)
    /\ pc = "branch" =>
          \A f \in zeroAtPrevRecon[cur] :
              /\ ~OnDisk(disk[cur], f)
              /\ f \in Expected(cur) => f \in missing_files

\* C4 witness: a second reconciliation of a pair reports missing an expected
\* artifact that was zero-byte at the first.
C4_Witness ==
    /\ pc = "branch"
    /\ run = 2
    /\ \E f \in zeroAtPrevRecon[cur] : f \in Expected(cur) /\ f \in missing_files

\* C5: a failure that is fatal for one pair never ends the run: the run does
\* not abort, and when it ends every pair has been passed over.
C5_PairFailureDoesNotAbort ==
    /\ pc # "aborted"
    /\ pc = "finished" => \A p \in 1..NumPairs : PassEnded(p)

\* C6: a failure on one artifact during ingestion affects that artifact only:
\* when the ingestion of a pair has run, every artifact a reader can read is
\* in the pair's outputs, and the outputs were written.
C6_ArtifactFailureIsLocal ==
    \A p \in 1..NumPairs :
        (IngestionRan(p) /\ Readable(p) # {}) =>
            /\ log[p] = "processed"
            /\ outputs[p].written
            /\ Readable(p) \subseteq outputs[p].sources

\* C7: a non-empty artifact that neither reader can parse is removed from
\* disk by the pass that tried to ingest it.
C7_UnparseableRemoved ==
    \A p \in 1..NumPairs :
        IngestionRan(p) => {f \in disk[p]["unparseable"] : ContainsNc4(f)} = {}

\* C8: reconciling a pair whose directory holds no artifacts returns
\* complete = false, a missing set equal to the expected set, and nothing
\* classified as present.
C8_EmptyDirectoryReconcile ==
    (pc = "branch" /\ ~YearsRaise(years) /\ ListedArtifacts(cur) = {}) =>
        /\ ~is_complete
        /\ missing_files = Expected(cur)

\* C9: reconciliation reports complete exactly when no expected name is
\* absent from the directory and no artifact in it is zero-byte, whether or
\* not the zero-byte artifact's name is expected.
C9_CompleteIffNoneMissingNoneEmpty ==
    (pc = "branch" /\ ~YearsRaise(years)) =>
        (is_complete <=>
            /\ \A f \in Expected(cur) : OnDisk(disk[cur], f)
            /\ ~\E f \in disk[cur]["empty"] : EndsWithNc4(f))

\* C9 witness: every expected name is on disk, a zero-byte artifact with an
\* unexpected name is there too, and reconciliation reported incomplete.
C9_Witness ==
    /\ pc = "branch"
    /\ ~YearsRaise(years)
    /\ ~is_complete
    /\ \A f \in Expected(cur) : OnDisk(disk[cur], f) /\ f \notin disk[cur]["empty"]
    /\ \E f \in disk[cur]["empty"] : EndsWithNc4(f) /\ f \notin Expected(cur)

\* C10: for every disk state of a pair the classification reconciliation
\* returns is disjoint and covers the range: no name is both missing and
\* corrupt, and every expected name is reported missing or is a file on disk.
C10_ClassificationCoversRange ==
    (pc = "branch" /\ ~YearsRaise(years)) =>
        /\ ReconMissing(cur) \cap ReconCorrupted(cur) = {}
        /\ \A f \in Expected(cur) : f \in missing_files \/ OnDisk(disk[cur], f)

\* The number of calendar days of the year y.
DaysIn(y) == IF IsLeap(y) THEN 366 ELSE 365

RECURSIVE SumDays(_, _)
\* The number of calendar days of the years ys[1], ..., ys[n].
SumDays(ys, n) == IF n = 0 THEN 0 ELSE SumDays(ys, n - 1) + DaysIn(ys[n])

\* The number stands for a day of the calendar.
IsCalendarDay(date) ==
    LET y == date \div 10000
        m == (date \div 100) % 100
        d == date % 100
    IN  /\ m \in 1..12
        /\ d >= 1
        /\ d <= (IF m = 2 THEN (IF IsLeap(y) THEN 29 ELSE 28)
                 ELSE IF m \in {4, 6, 9, 11} THEN 30 ELSE 31)

\* The years of the list are in strictly ascending order.
Ascending(ys) == \A i \in 1..(Len(ys) - 1) : ys[i] < ys[i + 1]

\* C11: for supported years the enumeration has one name per calendar day of
\* each year (365, or 366 in a leap year), the names are distinct, and the
\* ordered enumeration behind the URLs is chronological, also over several
\* years in ascending order.
C11_OneNamePerCalendarDay ==
    /\ (Returned("generate_download_links") /\ ~ret[1].raised /\ Ascending(arg)) =>
          LET urls == ret[1].urls
          IN  /\ Len(urls) = SumDays(arg, Len(arg))
              /\ \A k \in 1..Len(urls) :
                    /\ IsCalendarDay(NameDate(urls[k].last))
                    /\ \E i \in 1..Len(arg) : NameDate(urls[k].last) \div 10000 = arg[i]
              /\ \A k \in 1..(Len(urls) - 1) :
                    NameDate(urls[k].last) < NameDate(urls[k + 1].last)
    /\ (Returned("get_expected_filenames") /\ ~ret[1].raised /\ Ascending(arg)) =>
          LET names == ret[1].names
          IN  /\ Cardinality(names) = SumDays(arg, Len(arg))
              /\ Cardinality({NameDate(f) : f \in names}) = Cardinality(names)
              /\ \A f \in names :
                    /\ IsCalendarDay(NameDate(f))
                    /\ \E i \in 1..Len(arg) : NameDate(f) \div 10000 = arg[i]

\* C11 witness: the URLs of a leap year followed by the next year have been
\* generated, 366 + 365 of them.
C11_Witness ==
    /\ Returned("generate_download_links")
    /\ arg = <<2011, 2012>>
    /\ Len(ret[1].urls) = 365 + 366

\* C16: the year-to-generation mapping gives 100 for 1980-1991, 200 for
\* 1992-2000, 300 for 2001-2010 and 400 from 2011 on; a year before 1980
\* gives an error and no code, and an enumeration over a list with such a
\* year returns no name.
C16_GenerationTable ==
    /\ Returned("translate_year_to_file_number") =>
          /\ (arg \in 1980..1991) => ret[1] = 100
          /\ (arg \in 1992..2000) => ret[1] = 200
          /\ (arg \in 2001..2010) => ret[1] = 300
          /\ (arg >= 2011) => ret[1] = 400
          /\ (arg <= 1979) => ret[1] = Raised
          /\ (ret[1] = Raised) => arg <= 1979
    /\ (Returned("generate_download_links") /\ \E i \in 1..Len(arg) : arg[i] <= 1979) =>
          ret[1].raised /\ ret[1].urls = << >>
    /\ (Returned("get_expected_filenames") /\ \E i \in 1..Len(arg) : arg[i] <= 1979) =>
          ret[1].raised /\ ret[1].names = {}

\* C16 witness: the mapping was applied to the last year of a generation.
C16_Witness ==
    /\ Returned("translate_year_to_file_number")
    /\ arg = 2010
    /\ ret[1] = 300

\* The names the fetch stage derives from the URLs of a call that returned
\* (line 411).
UrlDerivedNames == {UrlStem(ret[1].urls[k]) : k \in 1..Len(ret[1].urls)}

\* C19 as stated: for every list of supported years, the set of names the
\* fetch stage derives from the generated URLs equals the set of expected
\* file names that reconciliation checks against the directory.
C19_UrlNamesEqualExpectedNames ==
    (Returned("generate_download_links") /\ ~ret[1].raised) =>
        UrlDerivedNames = get_expected_filenames(arg, TheDs)

\* C19 amended: for every list of supported years, the set of names the fetch
\* stage derives from the generated URLs equals the set of expected file
\* names with '.nc4' removed, the form in which the fetch stage reads the
\* names of the directory (lines 396-397).
C19_UrlNamesEqualExpectedStems ==
    (Returned("generate_download_links") /\ ~ret[1].raised) =>
        UrlDerivedNames = {StripNc4(f) : f \in get_expected_filenames(arg, TheDs)}

\* C19 witness: the URLs of two years of different generations have been
\* generated and names derived from them.
C19_Witness ==
    /\ Returned("generate_download_links")
    /\ arg = <<2000, 2011>>
    /\ Cardinality(UrlDerivedNames) = 366 + 365

\* C15: the chunks are an order-preserving partition of the list to download:
\* every chunk is non-empty, the chunks joined in order give back the list
\* (so each chunk is a contiguous piece and every resource is in exactly one
\* chunk), for every list length and every parallelism target >= 1.
C15_ChunksPartitionTheList ==
    Returned("url_chunks") =>
        LET chunks == ret[1]
        IN  /\ \A j \in 1..Len(chunks) : chunks[j] # << >>
            /\ Concat(chunks, Len(chunks)) = arg.urls
            /\ \A k \in 1..Len(arg.urls) :
                  Cardinality({j \in 1..Len(chunks) :
                                  \E i \in 1..Len(chunks[j]) : chunks[j][i] = arg.urls[k]}) = 1

\* C15 witness: a list whose length is no multiple of the chunk size has been
\* split, and the last chunk is shorter than the first.
C15_Witness ==
    /\ Returned("url_chunks")
    /\ Len(ret[1]) > arg.procs
    /\ Len(ret[1][Len(ret[1])]) < Len(ret[1][1])

\* The distance, multiplied by c.den, of the grid index i from the fraction c.
GridDistance(i, c) == Abs(i * c.den - c.num)

\* The index idx of the grid 0..last is the closest to c, and the lowest of
\* the closest.
ClosestLowest(idx, c, last) ==
    /\ idx \in 0..last
    /\ \A i \in 0..last : GridDistance(idx, c) <= GridDistance(i, c)
    /\ \A i \in 0..(idx - 1) : GridDistance(i, c) > GridDistance(idx, c)

\* C14: for every latitude in [-90, 90] and longitude in [-180, 180] the row
\* index is in [0, 360] and the column index in [0, 575], and each is the
\* index with the least absolute difference from the transformed coordinate
\* ((lat + 90) / 0.5, (lon + 180) / 0.625), the lowest such index on a tie.
C14_ClosestIndexInGrid ==
    /\ Returned("lat_closest") =>
          ClosestLowest(ret[1], [num |-> 2 * arg.num + 180 * arg.den, den |-> arg.den], 360)
    /\ Returned("lon_closest") =>
          ClosestLowest(ret[1], [num |-> 8 * arg.num + 1440 * arg.den, den |-> 5 * arg.den], 575)

\* C14 witness: a longitude whose transformed coordinate lies midway between
\* two columns has been mapped to the lower one.
C14_Witness ==
    /\ Returned("lon_closest")
    /\ 2 * 8 * (arg.num + 180 * arg.den) = (2 * ret[1] + 1) * 5 * arg.den

RECURSIVE SumHours(_, _)
\* The number of hourly rows of the frames fs[1], ..., fs[n].
SumHours(fs, n) == IF n = 0 THEN 0 ELSE SumHours(fs, n - 1) + fs[n].hours

\* C17: the merged hourly series keeps every point of every artifact read:
\* its length is the sum of the numbers of hourly points of the artifacts,
\* rows of the same timestamp from overlapping artifacts are all kept, and
\* its timestamps are in non-decreasing order.
C17_MergedSeriesKeepsEveryPoint ==
    Returned("merge") =>
        LET df == ret[1].df
            fs == arg.all_data
        IN  /\ Len(df) = SumHours(fs, Len(fs))
            /\ \A i \in 1..(Len(df) - 1) : df[i].t <= df[i + 1].t
            /\ \A d \in DatePool, h \in 0..(MaxHours - 1) :
                  Cardinality({i \in 1..Len(df) : df[i].date = d /\ df[i].t = Ordinal(d) * 24 + h})
                    = Cardinality({j \in 1..Len(fs) : fs[j].date = d /\ fs[j].hours > h})

\* C17 witness: two artifacts of the same day, the later day first in the
\* list, have been merged: the series holds two rows of one timestamp.
C17_Witness ==
    /\ Returned("merge")
    /\ Len(arg.all_data) = 3
    /\ arg.all_data[1].date > arg.all_data[2].date
    /\ arg.all_data[2].date = arg.all_data[3].date
    /\ \E i \in 1..(Len(ret[1].df) - 1) : ret[1].df[i].t = ret[1].df[i + 1].t

\* The daily values of the rows whose date is in the week of the key.
DailyValuesOfWeek(daily, key) ==
    ValuesWhere(daily,
                [i \in 1..Len(daily) |->
                    isocalendar(daily[i].date).year * 100 + isocalendar(daily[i].date).week],
                key)

\* C12: the daily series has one row per calendar date of the hourly series;
\* the weekly series has one row per (ISO year, ISO week) of the daily dates,
\* whose value is the reducer applied to the daily values of that week; three
\* days of one ISO week with hourly values 1, 2, 3 and reducer mean give the
\* daily values 1, 2, 3 and the weekly value 2.
C12_WeeklyFromDaily ==
    Returned("aggregate") =>
        LET df     == arg.df
            daily  == ret[1].daily
            weekly == ret[1].weekly
            dates  == {df[i].date : i \in 1..Len(df)}
            keys   == {isocalendar(d).year * 100 + isocalendar(d).week : d \in dates}
        IN  /\ Len(daily) = Cardinality(dates)
            /\ {daily[k].date : k \in 1..Len(daily)} = dates
            /\ Len(weekly) = Cardinality(keys)
            /\ {weekly[k].Year * 100 + weekly[k].Week : k \in 1..Len(weekly)} = keys
            /\ \A k \in 1..Len(weekly) :
                  FracEq(weekly[k].v,
                         Agg(arg.aggregator,
                             DailyValuesOfWeek(daily, weekly[k].Year * 100 + weekly[k].Week)))
            /\ (arg.aggregator = "mean" /\ dates = {20120102, 20120103, 20120104}) =>
                  /\ \A k \in 1..3 : FracEq(daily[k].v, Frac(k))
                  /\ Len(weekly) = 1
                  /\ FracEq(weekly[1].v, Frac(2))

\* C12 witness: three days of one ISO week with values 1, 2, 3, the first day
\* with two hourly rows and the others with one, reducer mean, have been
\* summarised: the weekly value is 2, the mean of the four hourly values 7/4.
C12_Witness ==
    /\ Returned("aggregate")
    /\ arg.aggregator = "mean"
    /\ Len(arg.df) = 4
    /\ {arg.df[i].date : i \in 1..4} = {20120102, 20120103, 20120104}
    /\ arg.df[1].date = arg.df[2].date
    /\ Len(ret[1].weekly) = 1
    /\ FracEq(ret[1].weekly[1].v, Frac(2))

\* C13: across any sequence of runs, every file that leaves a pair's
\* directory had size zero when it was removed, and every non-empty file of a
\* directory is there, with the same content, after every step.
C13_NonEmptyArtifactsUntouched ==
    [][\A p \in 1..NumPairs :
          /\ \A f \in NamesIn(disk[p]) \ NamesIn(disk'[p]) : f \in disk[p]["empty"]
          /\ \A k \in NonEmptyKinds : disk[p][k] \subseteq disk'[p][k]]_vars

\* C18: a step of the pass over one pair leaves the directory and the outputs
\* of every other pair as they are, and what it writes to the outputs of its
\* own pair comes from the valid files of that pair's directory.
C18_PairsAreIsolated ==
    [][/\ \A p \in 1..NumPairs :
             p # cur => /\ disk'[p] = disk[p]
                        /\ dirExists'[p] = dirExists[p]
                        /\ outputs'[p] = outputs[p]
       /\ outputs'[cur] # outputs[cur] =>
             outputs'[cur].sources \subseteq ValidFiles(disk[cur])]_vars

\* C18 witness: both pairs have been processed in one run, and their
\* directories and outputs differ.
C18_Witness ==
    /\ pc = "finished"
    /\ log[1] = "processed"
    /\ log[2] = "processed"
    /\ disk[1] # disk[2]
    /\ outputs[1].sources # outputs[2].sources

====
